---------------------------- MODULE Spec2Model ----------------------------
(***************************************************************************)
(* State-machine model of "ESG PROJECT/app.py", a Streamlit script.        *)
(*                                                                         *)
(* Streamlit re-executes the whole script on every user interaction, so    *)
(* every action below is one interaction followed by one full pass of the  *)
(* script (lines 33-132).  The only things that survive between passes are *)
(* the widget values (the mode radio, the uploaded file, the selected      *)
(* company) and the process environment (whether PyPDF2 imported, and the  *)
(* iteration order of the set literal `required`, which depends on the     *)
(* interpreter's string-hash seed).  Everything else is recomputed.        *)
(*                                                                         *)
(* Text is modelled as text: TLA+ strings handled character by character.  *)
(* Numbers are held in tenths (80.0 is 800); the inputs carry at most one  *)
(* fractional digit, so (E+S+G)/3 is never exactly half-way between two    *)
(* tenths and rounding to one decimal is the nearest tenth.                *)
(***************************************************************************)
EXTENDS Integers, Sequences, FiniteSets, TLC

VARIABLES
    PyPDF2,      \* TRUE iff `import PyPDF2` succeeded (lines 6-9)
    hashOrder,   \* the order in which list(required) enumerates the set (line 69)
    mode,        \* the radio's value (line 33)
    file,        \* the file_uploader's value (line 48)
    selected,    \* index of the option chosen in the selectbox (line 123)
    df,          \* the table handed to st.dataframe (line 122)
    col_map,     \* the header -> canonical name dict of the last CSV pass (58-64)
    msgs,        \* the messages the pass showed (st.success / st.error / st.info)
    missing,     \* the set printed by the missing-columns error (line 76)
    crashed      \* TRUE iff the pass ended in an unhandled exception (122-132)

vars == <<PyPDF2, hashOrder, mode, file, selected, df, col_map, msgs, missing,
          crashed>>

-----------------------------------------------------------------------------
(* Bounds of the model *)

\* Most data rows in an uploaded CSV.
MaxRows == 2

\* Most pages in an uploaded PDF.
MaxPages == 2

-----------------------------------------------------------------------------
(* Text *)

Char(s, i) == SubSeq(s, i, i)

UpperChars == "ABCDEFGHIJKLMNOPQRSTUVWXYZ"

LowerChars == "abcdefghijklmnopqrstuvwxyz"

DigitChars == "0123456789"

IsSpace(c) == c \in {" ", "\t", "\n", "\r"}

DigitSet == {Char(DigitChars, i) : i \in 1..10}

IsDigit(c) == c \in DigitSet

DigitVal(c) == (CHOOSE i \in 1..10 : Char(DigitChars, i) = c) - 1

UpperSet == {Char(UpperChars, i) : i \in 1..26}

LowerChar(c) ==
    IF c \in UpperSet
    THEN Char(LowerChars, CHOOSE i \in 1..26 : Char(UpperChars, i) = c)
    ELSE c

\* str.lower()
RECURSIVE Lower(_)
Lower(s) == IF s = "" THEN "" ELSE LowerChar(Head(s)) \o Lower(Tail(s))

RECURSIVE LStrip(_)
LStrip(s) == IF s # "" /\ IsSpace(Head(s)) THEN LStrip(Tail(s)) ELSE s

RECURSIVE RStrip(_)
RStrip(s) ==
    IF s # "" /\ IsSpace(Char(s, Len(s)))
    THEN RStrip(SubSeq(s, 1, Len(s) - 1))
    ELSE s

\* str.strip()
Strip(s) == RStrip(LStrip(s))

\* sub in s
Contains(s, sub) ==
    \E i \in 1..(Len(s) - Len(sub) + 1) : SubSeq(s, i, i + Len(sub) - 1) = sub

\* s.endswith(suf)
EndsWith(s, suf) ==
    /\ Len(s) >= Len(suf)
    /\ SubSeq(s, Len(s) - Len(suf) + 1, Len(s)) = suf

\* the index of the first character of s at or after i satisfying "is a
\* separator", or Len(s) + 1
RECURSIVE NextSpace(_, _)
NextSpace(s, i) ==
    IF i > Len(s) \/ IsSpace(Char(s, i)) THEN i ELSE NextSpace(s, i + 1)

\* str.split(): the maximal runs of non-whitespace characters
RECURSIVE Split(_)
Split(s) ==
    LET t == LStrip(s)
        j == NextSpace(t, 1)
    IN  IF t = "" THEN <<>>
        ELSE <<SubSeq(t, 1, j - 1)>> \o Split(SubSeq(t, j, Len(t)))

RECURSIVE NextNewline(_, _)
NextNewline(s, i) ==
    IF i > Len(s) \/ Char(s, i) = "\n" THEN i ELSE NextNewline(s, i + 1)

\* str.splitlines(): a final line break ends the last line, it starts no new
\* one ("\n" is the only line boundary in the input vocabulary)
RECURSIVE SplitLines(_)
SplitLines(s) ==
    LET j == NextNewline(s, 1)
    IN  IF s = "" THEN <<>>
        ELSE <<SubSeq(s, 1, j - 1)>> \o SplitLines(SubSeq(s, j + 1, Len(s)))

\* "".join(parts)
RECURSIVE Join(_)
Join(parts) == IF parts = <<>> THEN "" ELSE Head(parts) \o Join(Tail(parts))

\* the sequence f, element by element (f \o <<>> is f; TLC then holds it as
\* an evaluated tuple instead of re-evaluating its rule at every use)
Tup(f) == f \o <<>>

IsDigits(s) == s # "" /\ \A i \in 1..Len(s) : IsDigit(Char(s, i))

RECURSIVE DigitsVal(_)
DigitsVal(s) ==
    IF s = "" THEN 0
    ELSE 10 * DigitsVal(SubSeq(s, 1, Len(s) - 1)) + DigitVal(Char(s, Len(s)))

RECURSIVE NatToStr(_)
NatToStr(n) ==
    IF n < 10 THEN Char(DigitChars, n + 1)
    ELSE NatToStr(n \div 10) \o Char(DigitChars, (n % 10) + 1)

-----------------------------------------------------------------------------
(* Cell values.  kind "int" and "float" carry the number in tenths in v,    *)
(* "str" carries its text in s, "nan" is the floating-point NaN that pandas *)
(* uses for a missing cell.                                                 *)

IntCell(n) == [k |-> "int", v |-> 10 * n, s |-> ""]

FloatCell(t) == [k |-> "float", v |-> t, s |-> ""]

StrCell(txt) == [k |-> "str", v |-> 0, s |-> txt]

NaN == [k |-> "nan", v |-> 0, s |-> ""]

IsNumber(c) == c.k \in {"int", "float"}

\* an unsigned decimal literal: digits, digits "." digits, digits ".", "." digits
IsUDecimal(s) ==
    \/ IsDigits(s)
    \/ \E i \in 1..Len(s) :
          /\ Char(s, i) = "."
          /\ LET a == SubSeq(s, 1, i - 1)
                 b == SubSeq(s, i + 1, Len(s))
             IN  /\ a = "" \/ IsDigits(a)
                 /\ b = "" \/ IsDigits(b)
                 /\ a # "" \/ b # ""

\* its value in tenths (the inputs carry at most one fractional digit)
UDecimalTenths(s) ==
    IF IsDigits(s) THEN 10 * DigitsVal(s)
    ELSE LET i == CHOOSE i \in 1..Len(s) : Char(s, i) = "."
             a == SubSeq(s, 1, i - 1)
             b == SubSeq(s, i + 1, Len(s))
         IN  10 * DigitsVal(a) + (IF b = "" THEN 0 ELSE DigitVal(Char(b, 1)))

HasSign(s) == s # "" /\ Head(s) \in {"+", "-"}

Unsigned(s) == IF HasSign(s) THEN Tail(s) ELSE s

Signed(s, n) == IF s # "" /\ Head(s) = "-" THEN 0 - n ELSE n


\* float(tok) succeeds (line 99).  Exponents, "inf" and digit-group
\* underscores, which float() also accepts, are not in the input vocabulary.
PyFloatOk(tok) ==
    LET u == Unsigned(tok) IN Lower(u) = "nan" \/ IsUDecimal(u)

\* float(tok)
PyFloat(tok) ==
    LET u == Unsigned(tok)
    IN  IF Lower(u) = "nan" THEN NaN
        ELSE FloatCell(Signed(tok, UDecimalTenths(u)))

\* the texts pandas.read_csv reads as a missing value by default
NAStrings ==
    {"", "#N/A", "#N/A N/A", "#NA", "-1.#IND", "-1.#QNAN", "-NaN", "-nan",
     "1.#IND", "1.#QNAN", "<NA>", "N/A", "NA", "NULL", "NaN", "n/a", "nan",
     "null"}

PdIsInt(txt) == IsDigits(Unsigned(txt))

PdIsFloat(txt) == IsUDecimal(Unsigned(txt))

PdNumber(txt) == Signed(txt, UDecimalTenths(Unsigned(txt)))

\* pandas.read_csv's type inference for one column of text cells (line 55):
\* int64 when every cell is an integer literal, float64 when every cell is
\* numeric or missing, object (text, NaN where missing) otherwise
PdColumn(texts) ==
    LET n      == Len(texts)
        isNA   == Tup([i \in 1..n |-> texts[i] \in NAStrings])
        anyNA  == \E i \in 1..n : isNA[i]
        allInt == \A i \in 1..n : isNA[i] \/ PdIsInt(texts[i])
        allNum == \A i \in 1..n : isNA[i] \/ PdIsFloat(texts[i])
    IN  Tup([i \in 1..n |->
                IF isNA[i] THEN NaN
                ELSE IF allInt /\ ~anyNA
                     THEN [k |-> "int", v |-> PdNumber(texts[i]), s |-> ""]
                ELSE IF allNum THEN FloatCell(PdNumber(texts[i]))
                ELSE StrCell(texts[i])])

Abs(n) == IF n < 0 THEN 0 - n ELSE n

\* how DataFrame.to_csv writes one cell (line 129)
CellText(c) ==
    LET sign == IF c.v < 0 THEN "-" ELSE ""
    IN  CASE c.k = "int"   -> sign \o NatToStr(Abs(c.v) \div 10)
          [] c.k = "float" -> sign \o NatToStr(Abs(c.v) \div 10) \o "."
                                   \o NatToStr(Abs(c.v) % 10)
          [] c.k = "nan"   -> ""
          [] OTHER         -> c.s

-----------------------------------------------------------------------------
(* Tables: a DataFrame is its column labels and its rows, cell by cell.    *)

Frame(cols, rows) ==
    [columns |-> Tup(cols),
     rows |-> Tup([i \in 1..Len(rows) |-> Tup(rows[i])])]

\* the positions of the columns labelled name
ColIdx(d, name) == {j \in 1..Len(d.columns) : d.columns[j] = name}

HasCol(d, name) == ColIdx(d, name) # {}

\* the position of the only column labelled name
Col(d, name) == CHOOSE j \in ColIdx(d, name) : TRUE

\* the cell of row i under the (single) column labelled name
Cell(d, i, name) == d.rows[i][Col(d, name)]

-----------------------------------------------------------------------------
(* Score Evaluator (lines 43-44, 70-73, 105-108)                           *)

\* ((E + S + G) / 3).round(1) for one row: NaN if a term is NaN, else the
\* nearest tenth to the mean ((2t + 3) \div 6 is floor(t/3 + 1/2))
ESGScore(e, s, g) ==
    IF e.k = "nan" \/ s.k = "nan" \/ g.k = "nan" THEN NaN
    ELSE FloatCell((2 * (e.v + s.v + g.v) + 3) \div 6)

\* lambda x: "Low" if x >= 80 else ("Medium" if x >= 60 else "High");
\* every comparison with NaN is False
Risk(x) ==
    IF x.k # "nan" /\ x.v >= 800 THEN "Low"
    ELSE IF x.k # "nan" /\ x.v >= 600 THEN "Medium"
    ELSE "High"

\* the column arithmetic raises: a text cell among E, S, G (str / int), or
\* one of the three labels selecting more than one column
ScoringRaises(d) ==
    \/ \E name \in {"E", "S", "G"} : Cardinality(ColIdx(d, name)) # 1
    \/ \E i \in 1..Len(d.rows) :
          \E name \in {"E", "S", "G"} : Cell(d, i, name).k = "str"

\* df["ESG Score"] = ...; df["Risk"] = ...
Scored(d) ==
    Frame(d.columns \o <<"ESG Score", "Risk">>,
          [i \in 1..Len(d.rows) |->
              LET x == ESGScore(Cell(d, i, "E"), Cell(d, i, "S"), Cell(d, i, "G"))
              IN  d.rows[i] \o <<x, StrCell(Risk(x))>>])

\* sample_data (lines 36-41)
sample_data ==
    Frame(<<"Company", "E", "S", "G">>,
          << <<StrCell("Tesla"),     IntCell(75), IntCell(65), IntCell(78)>>,
             <<StrCell("Apple"),     IntCell(85), IntCell(90), IntCell(89)>>,
             <<StrCell("Microsoft"), IntCell(92), IntCell(88), IntCell(91)>>,
             <<StrCell("Amazon"),    IntCell(70), IntCell(60), IntCell(73)>>,
             <<StrCell("Google"),    IntCell(88), IntCell(80), IntCell(87)>> >>)

\* the table every pass starts from (lines 42-44)
SampleDf == Scored(sample_data)

-----------------------------------------------------------------------------
(* Uploaded files.  For a CSV, ok says whether pandas.read_csv can parse   *)
(* it and grid is its cells as text, the header row first.  For a PDF, ok  *)
(* says whether PdfReader can read it and pages gives extract_text() of     *)
(* each page.                                                              *)

UploadedFile(name, ok, grid, pages) ==
    [name |-> name, ok |-> ok, grid |-> grid, pages |-> pages]

\* file is None
NoFile == UploadedFile("", FALSE, <<>>, <<>>)

\* how read_csv renames a repeated header: "X", "X.1", "X.2", ...
MangleDupes(header) ==
    Tup([j \in 1..Len(header) |->
            LET before == Cardinality({i \in 1..(j - 1) : header[i] = header[j]})
            IN  IF before = 0 THEN header[j]
                ELSE header[j] \o "." \o NatToStr(before)])

\* pd.read_csv(file) (line 55) of a parsable file
read_csv(grid) ==
    LET header == MangleDupes(Head(grid))
        body   == Tail(grid)
        column == Tup([j \in 1..Len(header) |->
                          PdColumn(Tup([i \in 1..Len(body) |-> body[i][j]]))])
    IN  Frame(header,
              [i \in 1..Len(body) |-> [j \in 1..Len(header) |-> column[j][i]]])

\* new_df.columns.str.strip() (line 56)
StripColumns(d) ==
    Frame([j \in 1..Len(d.columns) |-> Strip(d.columns[j])], d.rows)

-----------------------------------------------------------------------------
(* Column Normalizer (lines 58-65)                                         *)

\* Canonical with the governance test ahead of the social one
CanonicalGovFirst(c) ==
    IF Contains(c, "env") \/ c = "e" THEN "E"
    ELSE IF Contains(c, "gov") \/ c = "g" THEN "G"
    ELSE IF Contains(c, "soc") \/ c = "s" THEN "S"
    ELSE IF Contains(c, "comp") THEN "Company"
    ELSE ""

\* the if / elif chain of lines 61-64 on c = col.lower(); "" when no branch
\* is taken
Canonical(c) ==
    IF Contains(c, "env") \/ c = "e" THEN "E"
    ELSE IF Contains(c, "soc") \/ c = "s" THEN "S"
    ELSE IF Contains(c, "gov") \/ c = "g" THEN "G"
    ELSE IF Contains(c, "comp") THEN "Company"
    ELSE ""

\* col_map after the loop of lines 59-64, as the set of its (key, value) items
ColMap(columns) ==
    LET to == Tup([j \in 1..Len(columns) |-> Canonical(Lower(columns[j]))])
    IN  {<<columns[j], to[j]>> : j \in {i \in 1..Len(columns) : to[i] # ""}}

\* new_df.rename(columns=col_map) (line 65)
Rename(d, cm) ==
    Frame([j \in 1..Len(d.columns) |->
              IF \E kv \in cm : kv[1] = d.columns[j]
              THEN (CHOOSE kv \in cm : kv[1] = d.columns[j])[2]
              ELSE d.columns[j]],
          d.rows)

\* required (line 67)
required == {"Company", "E", "S", "G"}

RECURSIVE Concat(_)
Concat(seqs) == IF seqs = <<>> THEN <<>> ELSE Head(seqs) \o Concat(Tail(seqs))

RECURSIVE SortedSeq(_)
SortedSeq(S) ==
    IF S = {} THEN <<>>
    ELSE LET m == CHOOSE x \in S : \A y \in S : x <= y
         IN  <<m>> \o SortedSeq(S \ {m})

\* new_df[list(required)] (line 69): for each label in the list's order, every
\* column carrying that label
Project(d, order) ==
    LET picks == Concat(Tup([n \in 1..Len(order) |-> SortedSeq(ColIdx(d, order[n]))]))
    IN  Frame([j \in 1..Len(picks) |-> d.columns[picks[j]]],
              [i \in 1..Len(d.rows) |->
                  [j \in 1..Len(picks) |-> d.rows[i][picks[j]]]])

\* one pass's outcome: the table, the col_map, the messages, the missing set
Outcome(d, cm, ms, miss) ==
    [df |-> d, col_map |-> cm, msgs |-> ms, missing |-> miss]

\* the else branch of lines 75-76: the error names required - set(columns),
\* df is not assigned
MissingColumns(new_df, cm, have) ==
    Outcome(SampleDf, cm, {"CSV missing required columns"}, required \ have)

\* the CSV branch (lines 54-79); order is list(required)'s order
CsvBranch(f, order) ==
    IF ~f.ok
    THEN Outcome(SampleDf, {}, {"Error reading CSV"}, {})
    ELSE
      LET stripped == StripColumns(read_csv(f.grid))
          cm       == ColMap(stripped.columns)
          new_df   == Rename(stripped, cm)
          have     == {new_df.columns[j] : j \in 1..Len(new_df.columns)}
          picked   == Project(new_df, order)
      IN  IF required \subseteq have
          THEN IF ScoringRaises(picked)
               THEN Outcome(picked, cm, {"Error reading CSV"}, {})
               ELSE Outcome(Scored(picked), cm, {"ESG data loaded from CSV."}, {})
          ELSE MissingColumns(new_df, cm, have)

-----------------------------------------------------------------------------
(* PDF heuristic extractor (lines 83-113)                                  *)

\* "".join([page.extract_text() for page in reader.pages if page.extract_text()])
ExtractText(pages) ==
    Join(SelectSeq(pages, LAMBDA t : t # ""))

\* lines 95-102 for one line: the row appended, or <<>> (nothing appended)
LineRow(line) ==
    LET parts == Split(line)
    IN  IF Len(parts) >= 4
           /\ PyFloatOk(parts[2]) /\ PyFloatOk(parts[3]) /\ PyFloatOk(parts[4])
        THEN << <<StrCell(parts[1]), PyFloat(parts[2]), PyFloat(parts[3]),
                  PyFloat(parts[4])>> >>
        ELSE <<>>

\* rows after the loop of lines 93-102
ExtractRows(text) ==
    LET lines == SplitLines(text)
    IN  Concat(Tup([n \in 1..Len(lines) |-> LineRow(lines[n])]))

\* the PDF branch (lines 83-113)
PdfBranch(f, havePyPDF2) ==
    IF ~havePyPDF2
    THEN Outcome(SampleDf, {}, {"PDF parsing requires PyPDF2."}, {})
    ELSE IF ~f.ok
    THEN Outcome(SampleDf, {}, {"Error reading PDF"}, {})
    ELSE
      LET rows == ExtractRows(ExtractText(f.pages))
      IN  IF rows # <<>>
          THEN Outcome(Scored(Frame(<<"Company", "E", "S", "G">>, rows)), {},
                       {"Extracted text preview", "ESG data extracted from PDF."}, {})
          ELSE Outcome(SampleDf, {},
                       {"Extracted text preview", "Could not detect ESG table in PDF."}, {})

-----------------------------------------------------------------------------
(* One pass of the script                                                  *)

\* lines 42-113: the table and messages for the widgets' values
Pass(m, f, havePyPDF2, order) ==
    IF m = "Upload ESG report" /\ f # NoFile
    THEN LET r == IF EndsWith(f.name, ".csv") THEN CsvBranch(f, order)
                  ELSE IF EndsWith(f.name, ".pdf") THEN PdfBranch(f, havePyPDF2)
                  ELSE Outcome(SampleDf, {}, {}, {})
         IN  [r EXCEPT !.msgs = @ \cup {"File uploaded successfully!"}]
    ELSE Outcome(SampleDf, {}, {}, {})

\* the selectbox's options: df["Company"] (line 123)
Options(d) == Tup([i \in 1..Len(d.rows) |-> Cell(d, i, "Company")])

\* df[df["Company"] == selected] (line 124): the rows whose Company equals the
\* chosen option; NaN equals nothing, itself included
Matching(d, sel) ==
    {i \in 1..Len(d.rows) :
        /\ Cell(d, sel, "Company").k # "nan"
        /\ Cell(d, i, "Company") = Cell(d, sel, "Company")}

\* lines 122-126 raise: .iloc[0] of an empty selection, or a missing
\* "ESG Score" / "Risk" label in the selected row (a table with a repeated
\* label lacks both; there df.style may raise first, the pass ends the same)
RenderRaises(d, sel) ==
    \/ sel = 0
    \/ Matching(d, sel) = {}
    \/ ~HasCol(d, "ESG Score")
    \/ ~HasCol(d, "Risk")

\* df.to_csv(index=False) (line 129): the header row, then one row per row
to_csv(d) ==
    <<d.columns>> \o
    [i \in 1..Len(d.rows) |->
        Tup([j \in 1..Len(d.columns) |-> CellText(d.rows[i][j])])]

\* no download is offered
NoExport == <<>>

\* the data of the download button (lines 127-132), which the pass reaches
\* only if nothing raised before it
exported == IF crashed THEN NoExport ELSE to_csv(df)

-----------------------------------------------------------------------------
(* The files a user may upload (the bounded input space)                   *)

\* the sequences that enumerate the set S once each
PermSeqs(S) ==
    {p \in [1..Cardinality(S) -> S] :
        \A i, j \in 1..Cardinality(S) : p[i] = p[j] => i = j}

\* the sequences of distinct elements of S of length at most n
SeqsUpTo(S, n) ==
    {p \in UNION {[1..k -> S] : k \in 0..n} :
        \A i, j \in 1..Len(p) : p[i] = p[j] => i = j}

\* a CSV written from records: layout gives, per column, the header text and
\* the record field ("c", "e", "s", "g" or "x") the column holds
CsvGrid(layout, records) ==
    <<Tup([j \in 1..Len(layout) |-> layout[j][1]])>> \o
    [i \in 1..Len(records) |->
        Tup([j \in 1..Len(layout) |-> records[i][layout[j][2]]])]

Record(c, e, s, g) == [c |-> c, e |-> e, s |-> s, g |-> g, x |-> "x"]

\* integer scores on a tier boundary; a missing score; a score that is text
Records ==
    {Record("Acme", "80", "80", "80"),
     Record("Delta", "", "70", "90"),
     Record("Eps", "high", "70", "90")}

CanonicalLayout == << <<"Company", "c">>, <<"E", "e">>, <<"S", "s">>, <<"G", "g">> >>

\* "Env Score,Soc,Gov,Company Name" as written and in two other column orders
PermutedLayouts ==
    {<< <<"Env Score", "e">>, <<"Soc", "s">>, <<"Gov", "g">>, <<"Company Name", "c">> >>,
     << <<"Company Name", "c">>, <<"Gov", "g">>, <<"Soc", "s">>, <<"Env Score", "e">> >>,
     << <<"Gov", "g">>, <<"Company Name", "c">>, <<"Env Score", "e">>, <<"Soc", "s">> >>}

\* no governance column; two environment columns; padding and upper case;
\* headers that meet several rules; an unmapped column; most columns missing
OtherLayouts ==
    {<< <<"Company", "c">>, <<"Environmental", "e">>, <<"Social", "s">> >>,
     << <<"Company", "c">>, <<"E", "e">>, <<"Env", "e">>, <<"S", "s">>, <<"G", "g">> >>,
     << <<" COMPANY ", "c">>, <<"ENV ", "e">>, <<" s", "s">>, <<"G", "g">> >>,
     << <<"Comp", "c">>, <<"Company Environment", "e">>, <<"Gov Social", "s">>,
        <<"Governance", "g">> >>,
     << <<"Sector", "x">>, <<"Company", "c">>, <<"E", "e">>, <<"S", "s">>,
        <<"G", "g">> >>,
     << <<"Name", "c">>, <<"E", "e">> >>}

CsvFiles ==
    {UploadedFile("data.csv", TRUE, CsvGrid(CanonicalLayout, rs), <<>>) :
        rs \in SeqsUpTo(Records, MaxRows)
               \cup {<<Record("Acme", "80", "80", "80"), Record("Acme", "80", "80", "80")>>,
                     <<Record("", "60", "60", "60")>>,
                     <<Record("Gamma", "59.9", "59.9", "59.9")>>}}
    \cup
    {UploadedFile("data.csv", TRUE,
                  CsvGrid(l, <<Record("Acme", "80", "80", "80")>>), <<>>) :
        l \in PermutedLayouts \cup OtherLayouts}
    \cup
    {UploadedFile("broken.csv", FALSE, <<>>, <<>>),
     UploadedFile("DATA.CSV", TRUE,
                  CsvGrid(CanonicalLayout, <<Record("Acme", "80", "80", "80")>>), <<>>)}

\* what extract_text() may return for a page: nothing, or rows among other
\* lines, the last line ended or not ended by a line break
PageTexts ==
    {"",
     "Company E S G\nAcme 80 70 90 extra\nAcme high low\n",
     "Acme eighty 70 90\nGamma nan 70 90\nNA 60 60 60"}

PdfFiles ==
    {UploadedFile("report.pdf", TRUE, <<>>, ps) :
        ps \in SeqsUpTo(PageTexts, MaxPages) \ {<<>>}}
    \cup
    {UploadedFile("broken.pdf", FALSE, <<>>, <<>>),
     UploadedFile("REPORT.PDF", TRUE, <<>>, <<"Acme 80 70 90 extra">>)}

Files == CsvFiles \cup PdfFiles

-----------------------------------------------------------------------------
(* Actions: one user interaction, then the whole script                    *)

\* the selectbox keeps its choice while its options are the same, and
\* returns to the first option (none if there is none) when they change
Reselect(d) ==
    IF Options(d) = Options(df) THEN selected
    ELSE IF d.rows = <<>> THEN 0 ELSE 1

\* the script's pass with the radio at m, the uploader at f and the selectbox
\* at option pick if the user picked one (pick > 0), else where it stays
Rerun(m, f, pick) ==
    \E r \in {Pass(m, f, PyPDF2, hashOrder)} :
      \E sel \in {IF pick > 0 THEN pick ELSE Reselect(r.df)} :
        \E raised \in {RenderRaises(r.df, sel)} :
            /\ mode' = m
            /\ file' = f
            /\ selected' = sel
            /\ df' = r.df
            /\ col_map' = r.col_map
            /\ msgs' = r.msgs
            /\ missing' = r.missing
            /\ crashed' = raised
            /\ UNCHANGED <<PyPDF2, hashOrder>>

Modes == {"Use sample data", "Upload ESG report"}

\* the radio (line 33); the uploader exists only in upload mode, so it is
\* empty after either switch
SelectMode(m) ==
    /\ m # mode
    /\ Rerun(m, NoFile, 0)

\* the uploader receives a file (line 48)
Upload(f) ==
    /\ mode = "Upload ESG report"
    /\ f # file
    /\ Rerun(mode, f, 0)

\* the uploader's file is removed
ClearFile ==
    /\ mode = "Upload ESG report"
    /\ file # NoFile
    /\ Rerun(mode, NoFile, 0)

\* the selectbox (line 123)
SelectCompany(i) ==
    /\ i # selected
    /\ Rerun(mode, file, i)

\* the download button's file (lines 127-132) is uploaded again
ReuploadExport ==
    /\ mode = "Upload ESG report"
    /\ exported # NoExport
    /\ Rerun(mode, UploadedFile("esg_scores.csv", TRUE, exported, <<>>), 0)

Init ==
    /\ PyPDF2 \in BOOLEAN
    /\ hashOrder \in PermSeqs(required)
    /\ mode = "Use sample data"
    /\ file = NoFile
    /\ selected = 1
    /\ df = SampleDf
    /\ col_map = {}
    /\ msgs = {}
    /\ missing = {}
    /\ crashed = FALSE

Next ==
    \/ \E m \in Modes : SelectMode(m)
    \/ \E f \in Files : Upload(f)
    \/ ClearFile
    \/ \E i \in 1..Len(df.rows) : SelectCompany(i)
    \/ ReuploadExport

Spec == Init /\ [][Next]_vars

-----------------------------------------------------------------------------
(* Vocabulary of the properties                                            *)

FileSelected == mode = "Upload ESG report" /\ file # NoFile

CsvSelected == FileSelected /\ EndsWith(file.name, ".csv")

PdfSelected ==
    FileSelected /\ ~EndsWith(file.name, ".csv") /\ EndsWith(file.name, ".pdf")

\* the table has exactly one column under each of the given labels
HasEach(d, labels) == \A name \in labels : Cardinality(ColIdx(d, name)) = 1

HasDerived(d) == HasEach(d, {"Company", "E", "S", "G", "ESG Score", "Risk"})

\* x >= t and x < t on scores in tenths; both are false of NaN
AtLeast(x, t) == x.k # "nan" /\ x.v >= t

Below(x, t) == x.k # "nan" /\ x.v < t

\* (e + s + g) / 3 to one decimal: the tenth r nearest to a third of the sum
RoundedMean(e, s, g) ==
    IF e.k = "nan" \/ s.k = "nan" \/ g.k = "nan" THEN NaN
    ELSE LET t == e.v + s.v + g.v
         IN  FloatCell(CHOOSE r \in ((t \div 3) - 1)..((t \div 3) + 1) :
                          3 * r - t \in {-1, 0, 1})

-----------------------------------------------------------------------------
(* C1 *)

\* C1: every row of the active table has a Risk that is "Low" iff its ESG
\* Score >= 80, "Medium" iff 60 <= ESG Score < 80, "High" iff ESG Score < 60.
C1_RiskMatchesScoreTier ==
    /\ HasDerived(df)
    /\ \A i \in 1..Len(df.rows) :
          LET x == Cell(df, i, "ESG Score")
              r == Cell(df, i, "Risk").s
          IN  /\ r \in {"Low", "Medium", "High"}
              /\ r = "Low" <=> AtLeast(x, 800)
              /\ r = "Medium" <=> (AtLeast(x, 600) /\ Below(x, 800))
              /\ r = "High" <=> Below(x, 600)

-----------------------------------------------------------------------------
(* C2 *)

\* C2: every row of the active table has an ESG Score equal to (E + S + G) / 3
\* rounded to one decimal; the sample rows Tesla, Microsoft and Amazon score
\* 72.7 / Medium, 90.3 / Low and 67.7 / Medium.
C2_ScoreIsRoundedMean ==
    /\ HasDerived(df)
    /\ \A i \in 1..Len(df.rows) :
          Cell(df, i, "ESG Score")
            = RoundedMean(Cell(df, i, "E"), Cell(df, i, "S"), Cell(df, i, "G"))
    /\ mode = "Use sample data" =>
          /\ df.rows[1] = <<StrCell("Tesla"), IntCell(75), IntCell(65), IntCell(78),
                            FloatCell(727), StrCell("Medium")>>
          /\ df.rows[3] = <<StrCell("Microsoft"), IntCell(92), IntCell(88),
                            IntCell(91), FloatCell(903), StrCell("Low")>>
          /\ df.rows[4] = <<StrCell("Amazon"), IntCell(70), IntCell(60), IntCell(73),
                            FloatCell(677), StrCell("Medium")>>

-----------------------------------------------------------------------------
(* C3 *)

\* the upload of this pass failed in one of the ways C3 lists: a required
\* column missing, read_csv unable to parse, PdfReader unable to read, no row
\* extracted from the PDF, PyPDF2 unavailable
UploadFailed ==
    \/ "CSV missing required columns" \in msgs
    \/ CsvSelected /\ ~file.ok
    \/ "Error reading PDF" \in msgs
    \/ "Could not detect ESG table in PDF." \in msgs
    \/ "PDF parsing requires PyPDF2." \in msgs

\* C3: when an upload fails in one of the listed ways, the active table after
\* the event is the table that was visible (rendered in full) before it, also
\* when that table came from an earlier successful upload.
C3_FailedUploadKeepsPreviousTable ==
    [][(~crashed /\ file' # file /\ UploadFailed') => df' = df]_vars

-----------------------------------------------------------------------------
(* C4 *)

\* C4: whenever the table is handed to the presentation layer, every row of
\* it carries an ESG Score and a Risk that are the Score Evaluator's functions
\* of the row's own E, S, G.
C4_DerivedColumnsPresentAndFresh ==
    /\ HasDerived(df)
    /\ \A i \in 1..Len(df.rows) :
          LET e == Cell(df, i, "E")
              s == Cell(df, i, "S")
              g == Cell(df, i, "G")
          IN  (IsNumber(e) /\ IsNumber(s) /\ IsNumber(g)) =>
                 /\ Cell(df, i, "ESG Score") = RoundedMean(e, s, g)
                 /\ Cell(df, i, "Risk").s =
                       (IF RoundedMean(e, s, g).v >= 800 THEN "Low"
                        ELSE IF RoundedMean(e, s, g).v >= 600 THEN "Medium"
                        ELSE "High")

-----------------------------------------------------------------------------
(* C5 *)

\* the file is a CSV that read_csv parsed
CsvParsed == CsvSelected /\ file.ok

\* the headers of the parsed file, as the normalizer receives them
Headers == read_csv(file.grid).columns

\* the rules of the Column Normalizer in their fixed order: the text a header
\* must contain, the text it may equal instead, the canonical name
NormalizerRules ==
    << <<"env", "e", "E">>, <<"soc", "s", "S">>, <<"gov", "g", "G">>,
       <<"comp", "comp", "Company">> >>

\* the canonical name of the first rule the trimmed, lower-cased header
\* meets; "" if it meets none
FirstMatch(h) ==
    LET t    == Lower(Strip(h))
        hits == {n \in 1..Len(NormalizerRules) :
                    \/ Contains(t, NormalizerRules[n][1])
                    \/ n < 4 /\ t = NormalizerRules[n][2]}
    IN  IF hits = {} THEN ""
        ELSE NormalizerRules[CHOOSE n \in hits : \A m \in hits : n <= m][3]

\* hs with the headers at i and j exchanged
Swapped(hs, i, j) ==
    [k \in 1..Len(hs) |-> IF k = i THEN hs[j] ELSE IF k = j THEN hs[i] ELSE hs[k]]

\* C5: each header is mapped by the first rule it meets after trimming and
\* lower-casing, unmapped if it meets none, and the mapping does not depend
\* on the order of the headers.
C5_HeadersClassifiedIndependently ==
    CsvParsed =>
       /\ col_map = {<<Strip(Headers[j]), FirstMatch(Headers[j])>> :
                        j \in {i \in 1..Len(Headers) : FirstMatch(Headers[i]) # ""}}
       /\ \A i, j \in 1..Len(Headers) :
             ColMap(StripColumns(Frame(Swapped(Headers, i, j), <<>>)).columns) = col_map

C5_Witness ==
    /\ CsvParsed
    /\ file.grid[1] = <<"Company Name", "Gov", "Soc", "Env Score">>
    /\ col_map = {<<"Env Score", "E">>, <<"Soc", "S">>, <<"Gov", "G">>,
                  <<"Company Name", "Company">>}
    /\ "ESG data loaded from CSV." \in msgs

-----------------------------------------------------------------------------
(* C6 *)

\* the canonical names some header was mapped to
MappedNames == {kv[2] : kv \in col_map}

\* the positions of the parsed file's columns whose header maps to name
SourceColumns(name) ==
    {j \in 1..Len(Headers) : <<Strip(Headers[j]), name>> \in col_map}

\* C6: normalization succeeds exactly when all four canonical names are mapped;
\* on success the table holds exactly one column per canonical name (also when
\* two headers map to the same name) with the file's rows in order and values
\* unchanged; on failure the error names exactly the missing canonical names.
C6_NormalizationProjectsFourColumns ==
    CsvParsed =>
       LET succeeded == "CSV missing required columns" \notin msgs
           parsed    == read_csv(file.grid)
       IN  /\ succeeded <=> (required \subseteq MappedNames)
           /\ ~succeeded => missing = required \ MappedNames
           /\ succeeded =>
                 /\ {df.columns[j] : j \in 1..Len(df.columns)} \ {"ESG Score", "Risk"}
                       = required
                 /\ HasEach(df, required)
                 /\ Len(df.rows) = Len(parsed.rows)
                 /\ \A name \in required : \A i \in 1..Len(df.rows) :
                       \E j \in SourceColumns(name) : Cell(df, i, name) = parsed.rows[i][j]

-----------------------------------------------------------------------------
(* C7 *)

\* the file is a PDF that PdfReader read
PdfRead == PdfSelected /\ PyPDF2 /\ file.ok

\* the line has at least four tokens and its 2nd to 4th parse as numbers
IsRowLine(line) ==
    /\ Len(Split(line)) >= 4
    /\ \A n \in 2..4 : PyFloatOk(Split(line)[n])

\* the lines of the extracted text that are row lines, in order
RowLines == SelectSeq(SplitLines(ExtractText(file.pages)), IsRowLine)

\* the table holds one row per row line, in line order: the first token and
\* the numbers of the next three
RowsAreRowLines ==
    /\ HasDerived(df)
    /\ Len(df.rows) = Len(RowLines)
    /\ \A i \in 1..Len(RowLines) :
          LET t == Split(RowLines[i])
          IN  /\ Cell(df, i, "Company") = StrCell(t[1])
              /\ Cell(df, i, "E") = PyFloat(t[2])
              /\ Cell(df, i, "S") = PyFloat(t[3])
              /\ Cell(df, i, "G") = PyFloat(t[4])

\* the extractor's result on the selected PDF: rows for the row lines, or the
\* no-data error when there is none
RowsExtractedLineByLine ==
    PdfRead =>
       IF RowLines # <<>>
       THEN RowsAreRowLines /\ "ESG data extracted from PDF." \in msgs
       ELSE "Could not detect ESG table in PDF." \in msgs

\* C7: the extractor yields, in line order, one row per line with at least
\* four tokens whose 2nd to 4th parse as numbers and nothing for any other
\* line; when no line yields a row the no-data error is shown and the table
\* is not replaced: it stays the table that was rendered before the upload.
C7_ExtractsRowLinesElseKeepsTable ==
    [][/\ RowsExtractedLineByLine
       /\ (~crashed /\ file' # file /\ "Could not detect ESG table in PDF." \in msgs')
             => df' = df]_vars

-----------------------------------------------------------------------------
(* C8 *)

\* the pass over the downloaded file, uploaded as a CSV
Reimported ==
    Pass("Upload ESG report", UploadedFile("esg_scores.csv", TRUE, exported, <<>>),
         PyPDF2, hashOrder)

\* C8: exporting the active table and uploading the file as a CSV succeeds and
\* yields the same rows in the same order, with identical Company, E, S, G and
\* identically recomputed ESG Score and Risk.
C8_ExportThenImportIsIdentity ==
    exported # NoExport =>
       /\ "ESG data loaded from CSV." \in Reimported.msgs
       /\ HasDerived(Reimported.df)
       /\ Len(Reimported.df.rows) = Len(df.rows)
       /\ \A i \in 1..Len(df.rows) :
             \A name \in {"Company", "E", "S", "G", "ESG Score", "Risk"} :
                Cell(Reimported.df, i, name) = Cell(df, i, name)

-----------------------------------------------------------------------------
(* C9 *)

\* C9: the exported CSV has the header Company, E, S, G, ESG Score, Risk in
\* that order and one row per company, whichever source produced the table.
C9_ExportHasSixColumnsInOrder ==
    exported # NoExport =>
       /\ exported[1] = <<"Company", "E", "S", "G", "ESG Score", "Risk">>
       /\ Len(exported) = 1 + Len(df.rows)

-----------------------------------------------------------------------------
(* C10 *)

ErrorMessages ==
    {"Error reading CSV", "CSV missing required columns", "Error reading PDF",
     "Could not detect ESG table in PDF.", "PDF parsing requires PyPDF2."}

\* C10: with a file selected, the pass renders the table and the selected row
\* without an unhandled error, and either the table was replaced by the scored
\* upload or an error message was shown.
C10_UploadRendersTableOrError ==
    FileSelected =>
       /\ ~crashed
       /\ \/ msgs \cap ErrorMessages # {}
          \/ /\ msgs \cap {"ESG data loaded from CSV.",
                           "ESG data extracted from PDF."} # {}
             /\ HasDerived(df)

=============================================================================
